---- MODULE Spec2Model ----
(***************************************************************************)
(* A model of the Sentiment Aura front end.                                *)
(*                                                                         *)
(* Part 1: the useSentimentProcessor hook                                  *)
(* (frontend/src/hooks/useSentimentProcessor.js): the debounce timer, the  *)
(* processing lock, the pending queue, the retry loop around the POST to   *)
(* /process_text and the way a response is applied to the hook's state.    *)
(*                                                                         *)
(* Time is abstracted to the order of events: a timer that is live may     *)
(* fire at any later step, so "a call made less than 500 ms after the      *)
(* previous one" is a call made while the debounce timer of the previous   *)
(* one is still live.  Every timer keeps the delay it was started with.    *)
(*                                                                         *)
(* sentiment, keywords, isProcessing and error hold the value last given   *)
(* to the React state setter.  A text is a sequence of characters.         *)
(***************************************************************************)
EXTENDS Integers, Sequences, FiniteSets, TLC

\* ------------------------------------------------------------- bounds

\* The number of calls of processText made from outside the hook.
MaxCalls == 3

\* ------------------------------------------------- program constants

DEBOUNCE_DELAY == 500
MIN_TEXT_LENGTH == 3
MAX_RETRIES == 3
RETRY_DELAY == 1000
SPACING_DELAY == 100

\* ---------------------------------------------------------- inputs

\* '', ' hi ' (4 characters, 2 after trim) and three texts that pass, two
\* of them equal after trim.
Texts ==
  { <<>>, <<" ", "h", "i", " ">>,
    <<"a", "b", "c">>, <<" ", "a", "b", "c">>, <<"a", "b", "d">> }

NoSentiment == [kind |-> "null"]

Score(n, e) == [num |-> n, exp |-> e]

\* The sentiment objects the endpoint answers with: score is num / 10^exp.
IncomingSentiments ==
  { [kind |-> "obj", score |-> Score(9, 1), type |-> "positive", intensity |-> "strong"],
    [kind |-> "obj", score |-> Score(2, 1), type |-> "negative", intensity |-> "weak"] }

\* The keywords field of a response body: absent, not an array, or an array.
IncomingKeywords ==
  { [kind |-> "missing"], [kind |-> "notArray"],
    [kind |-> "array", items |-> <<>>],
    [kind |-> "array", items |-> <<"love", "amazing">>] }

\* A response: data is falsy (no body), or an object with the two fields.
Responses ==
  { [hasData |-> FALSE] } \cup
  { [hasData |-> TRUE, sentiment |-> s, keywords |-> k] :
      s \in IncomingSentiments \cup {NoSentiment}, k \in IncomingKeywords }

\* The rejections of axios.post the catch blocks tell apart: by err.name,
\* err.code, err.response (status, data.message), err.request, err.message.
Errors ==
  { [name |-> "AbortError", code |-> "", status |-> 0, request |-> FALSE, message |-> "aborted"],
    [name |-> "AxiosError", code |-> "ECONNABORTED", status |-> 0, request |-> TRUE, message |-> "timeout"],
    [name |-> "AxiosError", code |-> "ERR_BAD_REQUEST", status |-> 400, request |-> TRUE, message |-> ""],
    [name |-> "AxiosError", code |-> "ERR_BAD_RESPONSE", status |-> 500, request |-> TRUE, message |-> ""],
    [name |-> "AxiosError", code |-> "ERR_BAD_RESPONSE", status |-> 503, request |-> TRUE, message |-> ""],
    [name |-> "AxiosError", code |-> "ERR_BAD_RESPONSE", status |-> 504, request |-> TRUE, message |-> ""],
    [name |-> "AxiosError", code |-> "ERR_BAD_REQUEST", status |-> 422, request |-> TRUE, message |-> "Validation error"],
    [name |-> "AxiosError", code |-> "ERR_NETWORK", status |-> 0, request |-> TRUE, message |-> "Network Error"],
    [name |-> "TypeError", code |-> "", status |-> 0, request |-> FALSE, message |-> "bad config"] }

NoError == "null"

\* ----------------------------------------------------------- helpers

RemoveAt(s, i) == SubSeq(s, 1, i - 1) \o SubSeq(s, i + 1, Len(s))

IsSpace(c) == c = " "

RECURSIVE TrimStart(_)
TrimStart(s) == IF s # <<>> /\ IsSpace(Head(s)) THEN TrimStart(Tail(s)) ELSE s

RECURSIVE TrimEnd(_)
TrimEnd(s) ==
  IF s # <<>> /\ IsSpace(s[Len(s)]) THEN TrimEnd(SubSeq(s, 1, Len(s) - 1)) ELSE s

\* String.prototype.trim
Trim(s) == TrimEnd(TrimStart(s))

RECURSIVE Pow10(_)
Pow10(n) == IF n = 0 THEN 1 ELSE 10 * Pow10(n - 1)

Max(a, b) == IF a >= b THEN a ELSE b

\* ------------------------------------------- the hook's pure steps

\* processText's entry filters: TRUE when the call returns at once.
EntryFilterNoDedup(text, isFinal, last) ==
  \/ ~isFinal
  \/ text = <<>>
  \/ Len(Trim(text)) < MIN_TEXT_LENGTH

EntryFilter(text, isFinal, last) ==
  \/ ~isFinal
  \/ text = <<>> \/ Len(Trim(text)) < MIN_TEXT_LENGTH
  \/ text = last

\* clearTimeout(debounceTimer.current): the timer the ref names, when it is
\* still live, is removed; a timer that has fired is not in the table.
ClearTimeout(ts) == SelectSeq(ts, LAMBDA t : ~t.ref)

ClearPendingNone(ts, dt) == ts

\* if (debounceTimer.current) clearTimeout(debounceTimer.current)
ClearPending(ts, dt) == IF dt # "null" THEN ClearTimeout(ts) ELSE ts

\* debounceTimer.current = setTimeout(callback, DEBOUNCE_DELAY)
SetDebounce(ts, text) ==
  Append([i \in DOMAIN ts |-> [ts[i] EXCEPT !.ref = FALSE]],
         [kind |-> "debounce", text |-> text, delay |-> DEBOUNCE_DELAY, ref |-> TRUE])

\* The timer table after processText(text, isFinal).
ProcessTextTimers(ts, dt, text, isFinal, last) ==
  IF EntryFilter(text, isFinal, last) THEN ts
  ELSE SetDebounce(ClearPending(ts, dt), text)

ProcessTextRef(dt, text, isFinal, last) ==
  IF EntryFilter(text, isFinal, last) THEN dt ELSE "set"

LockBlocksNever(lock) == FALSE

\* if (processingLock.current)
LockBlocks(lock) == lock

EnqueueReplace(q, text) == <<text>>

\* requestQueue.current.push(text)
Enqueue(q, text) == Append(q, text)

\* err.name === 'AbortError' || err.code === 'ECONNABORTED'
IsAbort(err) == err.name = "AbortError" \/ err.code = "ECONNABORTED"

\* while (attempt < MAX_RETRIES && !response), response being null
LoopContinues(attempt) == attempt < MAX_RETRIES

WillRetryOnceMore(currentAttempt) == currentAttempt < MAX_RETRIES

\* if (currentAttempt < MAX_RETRIES - 1)
WillRetry(currentAttempt) == currentAttempt < MAX_RETRIES - 1

\* RETRY_DELAY * (currentAttempt + 1)
RetryWait(currentAttempt) == RETRY_DELAY * (currentAttempt + 1)

ErrorMessageNo503(err) ==
  IF err.status # 0
  THEN CASE err.status = 400 -> "Invalid text format"
         [] err.status = 500 -> "Sentiment analysis service unavailable"
         [] OTHER -> IF err.message # "" THEN err.message
                     ELSE "Failed to analyze sentiment"
  ELSE IF err.request
       THEN "Cannot connect to backend. Please ensure the server is running."
       ELSE IF err.message # "" THEN err.message ELSE "Failed to analyze sentiment"

\* The message the outer catch gives setError.  status # 0 stands for
\* err.response; message is err.response.data.message there, err.message
\* otherwise.
ErrorMessage(err) ==
  IF err.status # 0
  THEN CASE err.status = 400 -> "Invalid text format"
         [] err.status = 500 -> "Sentiment analysis service unavailable"
         [] err.status = 503 -> "Service temporarily unavailable"
         [] OTHER -> IF err.message # "" THEN err.message
                     ELSE "Failed to analyze sentiment"
  ELSE IF err.request
       THEN "Cannot connect to backend. Please ensure the server is running."
       ELSE IF err.message # "" THEN err.message ELSE "Failed to analyze sentiment"

RECURSIVE Normalize(_)
\* n / 10^e in lowest terms of ten: equal numbers are equal records.
Normalize(x) ==
  IF x.exp > 0 /\ x.num % 10 = 0
  THEN Normalize(Score(x.num \div 10, x.exp - 1))
  ELSE IF x.num = 0 THEN Score(0, 0) ELSE x

SmoothUnweighted(p, q) ==
  LET e == Max(p.exp, q.exp)
  IN  Normalize(Score(p.num * Pow10(e - p.exp) + q.num * Pow10(e - q.exp), e))

SmoothSwapped(p, q) ==
  LET e == Max(p.exp, q.exp)
  IN  Normalize(Score(7 * p.num * Pow10(e - p.exp) + 3 * q.num * Pow10(e - q.exp), e + 1))

\* (prevSentiment.score * 0.3) + (data.sentiment.score * 0.7), exactly.
Smooth(p, q) ==
  LET e == Max(p.exp, q.exp)
  IN  Normalize(Score(3 * p.num * Pow10(e - p.exp) + 7 * q.num * Pow10(e - q.exp), e + 1))

ApplySentimentOverwrite(prev, data) ==
  IF data.sentiment.kind = "obj"
  THEN IF prev.kind = "null" THEN data.sentiment
       ELSE [kind |-> "obj", score |-> Smooth(prev.score, data.sentiment.score),
             type |-> data.sentiment.type, intensity |-> data.sentiment.intensity]
  ELSE NoSentiment

\* if (data.sentiment && typeof data.sentiment === 'object') setSentiment(...)
ApplySentiment(prev, data) ==
  IF data.sentiment.kind = "obj"
  THEN IF prev.kind = "null" THEN data.sentiment
       ELSE [kind |-> "obj", score |-> Smooth(prev.score, data.sentiment.score),
             type |-> data.sentiment.type, intensity |-> data.sentiment.intensity]
  ELSE prev

ApplyKeywordsNonEmpty(prev, data) ==
  IF data.keywords.kind = "array" /\ data.keywords.items # <<>>
  THEN data.keywords.items ELSE prev

\* if (data.keywords && Array.isArray(data.keywords)) setKeywords(data.keywords)
ApplyKeywords(prev, data) ==
  IF data.keywords.kind = "array" THEN data.keywords.items ELSE prev

\* finally: const nextText = requestQueue.current.shift()
FinallyQueue(q) == IF Len(q) > 0 THEN Tail(q) ELSE q

\* finally: setTimeout(() => processText(nextText, true), 100)
FinallyTimers(q, ts) ==
  IF Len(q) > 0
  THEN Append(ts, [kind |-> "spacing", text |-> Head(q), delay |-> SPACING_DELAY, ref |-> FALSE])
  ELSE ts

\* abortController.current.abort(): the requests that hold its signal.
AbortCurrent(tk) ==
  [i \in DOMAIN tk |-> IF tk[i].sigCur THEN [tk[i] EXCEPT !.sigAborted = TRUE] ELSE tk[i]]

\* ------------------------------------------------------------- state

VARIABLES
  sentiment,          \* useState(null)
  keywords,           \* useState([])
  isProcessing,       \* useState(false)
  error,              \* useState(null)
  debounceTimer,      \* debounceTimer.current: "null", or "set" once a timer id was stored
  abortController,    \* abortController.current: "null", "live" or "aborted"
  lastProcessedText,  \* lastProcessedText.current
  requestQueue,       \* requestQueue.current
  processingLock,     \* processingLock.current
  timers,             \* the live timeouts, in the order they were started
  tasks,              \* the debounce callbacks that sit in their retry loop
  mounted,            \* the cleanup effect has not run
  calls,              \* history: the calls of processText made from outside
  lastEvent,          \* history: the handler that ran last, and its input
  burst,              \* history: the texts that passed the filters since no debounce timer was live
  burstFired,         \* history: the debounce callbacks run for that burst
  owed                \* history: the texts pushed on the queue and not yet sent

spState == <<sentiment, keywords, isProcessing, error>>
spRefs == <<debounceTimer, abortController, lastProcessedText, requestQueue, processingLock>>
spRun == <<timers, tasks, mounted>>
spHistory == <<calls, lastEvent, burst, burstFired, owed>>
spVars == <<spState, spRefs, spRun, spHistory>>

\* Part 2, the useDeepgram hook (frontend/src/hooks/useDeepgram.js, lines
\* 16-236).  A socket is a record of the WebSocket's readyState; the audio
\* graph started by an open socket is a record that counts its releases.
VARIABLES
  dgIsConnected,      \* useState(false)
  dgError,            \* useState(null)
  dgTranscript,       \* useState('')
  dgWs,               \* ws.current: "null", "live" or "closed" (a socket that closed)
  dgProcessor,        \* processor.current is set (TRUE) or null (FALSE)
  dgAudioContext,     \* audioContext.current is set (TRUE) or null (FALSE)
  dgReconnectRef,     \* reconnectTimeout.current: "null", "live" or "fired"
  dgAttempts,         \* reconnectAttempts.current
  dgApiKey,           \* the apiKey prop is a non-empty string
  dgSockets,          \* the WebSockets that did not close yet
  dgTimers,           \* the live reconnect timeouts
  dgEvent,            \* history: the handler that ran last, and its input
  dgBackoff,          \* history: the delays scheduled since reconnectAttempts was last 0
  dgArrived,          \* history: the number of messages the sockets delivered
  dgDelivered,        \* history: the calls of onTranscript
  dgClosed,           \* history: disconnect() ran and connect() was not called since
  dgConnects          \* history: the number of calls of connect() by the owner

dgState == <<dgIsConnected, dgError, dgTranscript>>
dgRefs == <<dgWs, dgProcessor, dgAudioContext, dgReconnectRef, dgAttempts>>
dgRun == <<dgApiKey, dgSockets, dgTimers>>
dgHistory == <<dgEvent, dgBackoff, dgArrived, dgDelivered, dgClosed, dgConnects>>
dgVars == <<dgState, dgRefs, dgRun, dgHistory>>

\* Part 3, the useAudioCapture hook (frontend/src/hooks/useDeepgram.js, lines
\* 252-483).  A stream of getUserMedia has one audio track.
VARIABLES
  cpStream,           \* useState(null): a stream is set (TRUE) or null (FALSE)
  cpError,            \* useState(null)
  cpIsCapturing,      \* useState(false)
  cpPermission,       \* useState('prompt')
  cpAudioContext,     \* audioContext.current is set (TRUE) or null (FALSE)
  cpTracks,           \* the tracks that are live or held by mediaStream / audioTracks
  cpTimers,           \* the number of pending timeouts of stopCapture
  cpPending,          \* the number of getUserMedia calls not settled yet
  cpSupported,        \* the browser has navigator.mediaDevices.getUserMedia
  cpEvent             \* history: the operation of the hook that ran last

cpState == <<cpStream, cpError, cpIsCapturing, cpPermission>>
cpRefs == <<cpAudioContext, cpTracks>>
cpRun == <<cpTimers, cpPending, cpSupported>>
cpVars == <<cpState, cpRefs, cpRun, cpEvent>>

\* Part 4, the App component (part_007), as far as starting and stopping.
VARIABLES
  appIsRecording,     \* useState(false)
  appError,           \* useState(null)
  appMounted,         \* the component is mounted
  appStarts,          \* history: the number of calls of handleStart
  appEvent            \* history: the handler of App that ran last

appVars == <<appIsRecording, appError, appMounted, appStarts, appEvent>>

\* Part 4, continued: the logs of App and the sentiment it shows.
VARIABLES
  appTranscript,      \* useState([]): the transcript log
  appSentiment,       \* useState(null): currentSentiment
  appKeywords,        \* useState([]): currentKeywords
  appBatches          \* history: the keyword batches appended to the log

appLogs == <<appTranscript, appSentiment, appKeywords, appBatches>>

\* Part 5, the audio utilities (frontend/src/utils/audioUtils.js): the
\* arguments of a call and what it returned.
VARIABLES
  auInput,            \* the Float32Array given
  auFrom,             \* fromSampleRate
  auTo,               \* toSampleRate
  auOutput,           \* the array returned
  auEvent             \* history: the function that ran, and what it read

auVars == <<auInput, auFrom, auTo, auOutput, auEvent>>

vars == <<spVars, dgVars, cpVars, appVars, appLogs, auVars>>

\* What each part leaves alone when it is checked by itself.
spRest == <<dgVars, cpVars, appVars, appLogs, auVars>>
dgRest == <<spVars, cpVars, appVars, appLogs, auVars>>

\* useAudioCapture after construction, in a browser with or without the
\* capture API.
InitCapture(supported) ==
  /\ cpSupported = supported
  /\ cpStream = FALSE
  /\ cpError = NoError
  /\ cpIsCapturing = FALSE
  /\ cpPermission = "prompt"
  /\ cpAudioContext = FALSE
  /\ cpTracks = <<>>
  /\ cpTimers = 0
  /\ cpPending = 0
  /\ cpEvent = [op |-> "init"]

\* No call of the audio utilities.
InitAudioIdle ==
  /\ auInput = <<>>
  /\ auFrom = 1
  /\ auTo = 1
  /\ auOutput = <<>>
  /\ auEvent = [op |-> "init"]

\* App after construction.
InitApp ==
  /\ appTranscript = <<>>
  /\ appSentiment = NoSentiment
  /\ appKeywords = <<>>
  /\ appBatches = 0
  /\ appIsRecording = FALSE
  /\ appError = NoError
  /\ appMounted = TRUE
  /\ appStarts = 0
  /\ appEvent = [op |-> "init"]

\* useDeepgram after construction, with or without an API key.
InitDeepgram(key) ==
  /\ dgIsConnected = FALSE
  /\ dgError = NoError
  /\ dgTranscript = ""
  /\ dgWs = "null"
  /\ dgProcessor = FALSE
  /\ dgAudioContext = FALSE
  /\ dgReconnectRef = "null"
  /\ dgAttempts = 0
  /\ dgApiKey = key
  /\ dgSockets = <<>>
  /\ dgTimers = <<>>
  /\ dgEvent = [op |-> "init"]
  /\ dgBackoff = <<>>
  /\ dgArrived = 0
  /\ dgDelivered = <<>>
  /\ dgClosed = FALSE
  /\ dgConnects = 0

HasDebounce(ts) == \E i \in DOMAIN ts : ts[i].kind = "debounce"

InitSentiment ==
  /\ sentiment = NoSentiment
  /\ keywords = <<>>
  /\ isProcessing = FALSE
  /\ error = NoError
  /\ debounceTimer = "null"
  /\ abortController = "null"
  /\ lastProcessedText = <<>>
  /\ requestQueue = <<>>
  /\ processingLock = FALSE
  /\ timers = <<>>
  /\ tasks = <<>>
  /\ mounted = TRUE
  /\ calls = 0
  /\ lastEvent = [op |-> "init"]
  /\ burst = <<>>
  /\ burstFired = 0
  /\ owed = {}

\* The history of a processText(text, isFinal) that found the timers ts.
NoteSubmit(ts, text, isFinal) ==
  IF EntryFilter(text, isFinal, lastProcessedText)
  THEN UNCHANGED <<burst, burstFired>>
  ELSE /\ burst' = IF HasDebounce(ts) THEN Append(burst, text) ELSE <<text>>
       /\ burstFired' = IF HasDebounce(ts) THEN burstFired ELSE 0

\* processText(text, isFinal), called by the component.
Call(text, isFinal) ==
  /\ mounted
  /\ calls < MaxCalls
  /\ timers' = ProcessTextTimers(timers, debounceTimer, text, isFinal, lastProcessedText)
  /\ debounceTimer' = ProcessTextRef(debounceTimer, text, isFinal, lastProcessedText)
  /\ calls' = calls + 1
  /\ lastEvent' = [op |-> "call", text |-> text, isFinal |-> isFinal]
  /\ NoteSubmit(timers, text, isFinal)
  /\ UNCHANGED <<spState, abortController, lastProcessedText, requestQueue,
                 processingLock, tasks, mounted, owed>>

\* The spacing timer of the finally block fires: processText(nextText, true).
SpacingFire(i) ==
  /\ i \in DOMAIN timers
  /\ timers[i].kind = "spacing"
  /\ LET text == timers[i].text
         rest == RemoveAt(timers, i)
     IN  /\ timers' = ProcessTextTimers(rest, debounceTimer, text, TRUE, lastProcessedText)
         /\ debounceTimer' = ProcessTextRef(debounceTimer, text, TRUE, lastProcessedText)
         /\ lastEvent' = [op |-> "spacing", text |-> text]
         /\ NoteSubmit(rest, text, TRUE)
         /\ owed' = IF EntryFilter(text, TRUE, lastProcessedText) THEN owed \ {text} ELSE owed
  /\ UNCHANGED <<spState, abortController, lastProcessedText, requestQueue,
                 processingLock, tasks, mounted, calls>>

\* The debounce timer fires: the callback of lines 66-197 up to its first await.
DebounceFire(i) ==
  /\ i \in DOMAIN timers
  /\ timers[i].kind = "debounce"
  /\ LET text == timers[i].text
         rest == RemoveAt(timers, i)
     IN  /\ timers' = rest
         /\ lastEvent' = [op |-> "debounce", text |-> text, locked |-> processingLock]
         /\ burstFired' = burstFired + 1
         /\ IF LockBlocks(processingLock)
            THEN /\ requestQueue' = Enqueue(requestQueue, text)
                 /\ owed' = owed \cup {text}
                 /\ UNCHANGED <<spState, abortController, processingLock, tasks>>
            ELSE /\ processingLock' = TRUE
                 /\ isProcessing' = TRUE
                 /\ error' = NoError
                 /\ abortController' = "live"
                 /\ tasks' =
                      LET aborted == IF abortController # "null" THEN AbortCurrent(tasks) ELSE tasks
                      IN  Append([j \in DOMAIN aborted |-> [aborted[j] EXCEPT !.sigCur = FALSE]],
                                 [text |-> text, attempt |-> 0, phase |-> "awaiting", delay |-> 0,
                                  posts |-> 1, sigCur |-> TRUE, sigAborted |-> FALSE])
                 /\ owed' = owed \ {text}
                 /\ UNCHANGED <<sentiment, keywords, requestQueue>>
  /\ UNCHANGED <<debounceTimer, lastProcessedText, mounted, calls, burst>>

FinallyKeepsLock(i) ==
  /\ isProcessing' = FALSE
  /\ processingLock' = processingLock
  /\ requestQueue' = FinallyQueue(requestQueue)
  /\ timers' = FinallyTimers(requestQueue, timers)
  /\ tasks' = RemoveAt(tasks, i)

\* The finally block of the callback whose task is tasks[i].
Finally(i) ==
  /\ isProcessing' = FALSE
  /\ processingLock' = FALSE
  /\ requestQueue' = FinallyQueue(requestQueue)
  /\ timers' = FinallyTimers(requestQueue, timers)
  /\ tasks' = RemoveAt(tasks, i)

\* axios.post resolves with a response.
Succeed(i, data) ==
  /\ i \in DOMAIN tasks
  /\ tasks[i].phase = "awaiting"
  /\ ~tasks[i].sigAborted
  /\ IF data.hasData
     THEN /\ sentiment' = ApplySentiment(sentiment, data)
          /\ keywords' = ApplyKeywords(keywords, data)
          /\ lastProcessedText' = tasks[i].text
     ELSE UNCHANGED <<sentiment, keywords, lastProcessedText>>
  /\ Finally(i)
  /\ lastEvent' = [op |-> "response", text |-> tasks[i].text, data |-> data]
  /\ UNCHANGED <<error, debounceTimer, abortController, mounted, calls, burst, burstFired, owed>>

\* axios.post rejects with err: the inner catch, then the outer one.
Fail(i, err) ==
  /\ i \in DOMAIN tasks
  /\ tasks[i].phase = "awaiting"
  /\ (err.name = "AbortError") <=> tasks[i].sigAborted
  /\ lastEvent' = [op |-> "error", text |-> tasks[i].text, err |-> err,
                   attempt |-> tasks[i].attempt, posts |-> tasks[i].posts]
  /\ LET currentAttempt == tasks[i].attempt
     IN  IF IsAbort(err)
         THEN /\ Finally(i)
              /\ UNCHANGED error
         ELSE IF WillRetry(currentAttempt)
              THEN /\ tasks' = [tasks EXCEPT ![i] =
                                  [@ EXCEPT !.attempt = currentAttempt + 1,
                                            !.phase = "retryWait",
                                            !.delay = RetryWait(currentAttempt)]]
                   /\ UNCHANGED <<isProcessing, error, processingLock, requestQueue, timers>>
              ELSE /\ error' = ErrorMessage(err)
                   /\ Finally(i)
  /\ UNCHANGED <<sentiment, keywords, debounceTimer, abortController, lastProcessedText,
                 mounted, calls, burst, burstFired, owed>>

\* The retry delay is over: the loop tests its condition and posts again.
RetryFire(i) ==
  /\ i \in DOMAIN tasks
  /\ tasks[i].phase = "retryWait"
  /\ lastEvent' = [op |-> "retry", text |-> tasks[i].text]
  /\ IF LoopContinues(tasks[i].attempt)
     THEN /\ tasks' = [tasks EXCEPT ![i] =
                         [@ EXCEPT !.phase = "awaiting", !.delay = 0, !.posts = @ + 1,
                                   !.sigCur = TRUE,
                                   !.sigAborted = (abortController = "aborted")]]
          /\ UNCHANGED <<isProcessing, processingLock, requestQueue, timers>>
     ELSE Finally(i)
  /\ UNCHANGED <<sentiment, keywords, error, debounceTimer, abortController,
                 lastProcessedText, mounted, calls, burst, burstFired, owed>>

\* clearData()
ClearData ==
  /\ mounted
  /\ sentiment' = NoSentiment
  /\ keywords' = <<>>
  /\ error' = NoError
  /\ lastProcessedText' = <<>>
  /\ requestQueue' = <<>>
  /\ lastEvent' = [op |-> "clearData"]
  /\ owed' = {}
  /\ UNCHANGED <<isProcessing, debounceTimer, abortController, processingLock,
                 spRun, calls, burst, burstFired>>

\* The cleanup of the unmount effect.
Unmount ==
  /\ mounted
  /\ mounted' = FALSE
  /\ abortController' = IF abortController # "null" THEN "aborted" ELSE "null"
  /\ tasks' = IF abortController # "null" THEN AbortCurrent(tasks) ELSE tasks
  /\ timers' = ClearPending(timers, debounceTimer)
  /\ lastEvent' = [op |-> "unmount"]
  /\ owed' = {}
  /\ UNCHANGED <<spState, debounceTimer, lastProcessedText, requestQueue,
                 processingLock, calls, burst, burstFired>>

\* The rest of the front end does not move while the hook is checked alone.
Init ==
  InitSentiment /\ InitDeepgram(TRUE) /\ InitCapture(TRUE) /\ InitApp /\ InitAudioIdle

Next ==
  \/ (\E text \in Texts, isFinal \in BOOLEAN : Call(text, isFinal)) /\ UNCHANGED spRest
  \/ (\E i \in DOMAIN timers : SpacingFire(i)) /\ UNCHANGED spRest
  \/ (\E i \in DOMAIN timers : DebounceFire(i)) /\ UNCHANGED spRest
  \/ (\E i \in DOMAIN tasks, data \in Responses : Succeed(i, data)) /\ UNCHANGED spRest
  \/ (\E i \in DOMAIN tasks, err \in Errors : Fail(i, err)) /\ UNCHANGED spRest
  \/ (\E i \in DOMAIN tasks : RetryFire(i)) /\ UNCHANGED spRest
  \/ ClearData /\ UNCHANGED spRest
  \/ Unmount /\ UNCHANGED spRest

Spec == Init /\ [][Next]_vars

\* ------------------------------------------------------------- claims

DebounceTimers == {i \in DOMAIN timers : timers[i].kind = "debounce"}

\* C1: whatever the interleaving of processText calls, timer expiries, retry
\* delays, completions and dequeues, at most one request (its retries
\* counted with it) is in flight.
C1_AtMostOneInFlight ==
  /\ Len(tasks) <= 1
  /\ Len(tasks) = 1 => processingLock

\* A debounce timer expired during a request that is in its retry loop, and
\* was turned away to the queue.
C1_Witness ==
  /\ Len(tasks) = 1
  /\ tasks[1].attempt > 0
  /\ Len(requestQueue) > 0
  /\ lastEvent.op = "debounce"

\* C2: the calls that pass the filters while a debounce timer is live
\* collapse: one timer is live, it carries the text of the last call, one
\* callback runs for the burst, and when the lock is free that callback
\* issues one request with the last text and queues nothing.
C2_DebounceCollapses ==
  /\ [](/\ Cardinality(DebounceTimers) <= 1
        /\ \A i \in DebounceTimers :
             /\ timers[i].text = burst[Len(burst)]
             /\ timers[i].delay = 500
        /\ burstFired <= 1)
  /\ [][(lastEvent'.op = "debounce" /\ ~processingLock) =>
          /\ burstFired = 0
          /\ Len(tasks') = Len(tasks) + 1
          /\ tasks'[Len(tasks')].text = burst[Len(burst)]
          /\ tasks'[Len(tasks')].posts = 1
          /\ requestQueue' = requestQueue]_vars

\* Three calls in one burst, the request carries the third text.
C2_Witness ==
  /\ lastEvent.op = "debounce"
  /\ ~lastEvent.locked
  /\ Len(burst) = 3
  /\ burst[1] # burst[3]
  /\ burst[2] # burst[3]
  /\ Len(tasks) = 1
  /\ tasks[1].text = burst[3]
  /\ requestQueue = <<>>

\* C3, as claimed: the pending queue never holds more than one text.
C3_QueueAtMostOne == Len(requestQueue) <= 1

\* C3, amended: a debounce timer that expires while a request is in flight
\* appends its text behind the texts already pending; none is replaced.
C3_QueueAppends ==
  [][(lastEvent'.op = "debounce" /\ processingLock) =>
       /\ requestQueue' = requestQueue \o <<lastEvent'.text>>
       /\ tasks' = tasks]_vars

\* A second text was appended behind one already pending.
C3_Witness ==
  /\ lastEvent.op = "debounce"
  /\ lastEvent.locked
  /\ Len(requestQueue) = 2
  /\ requestQueue[2] = lastEvent.text
  /\ requestQueue[1] # requestQueue[2]

\* C4: a text pushed on the queue is not lost before it is sent: until its
\* request is issued it is on the queue or carried by a live timer.  (A text
\* that clearData or the unmount cleanup removes, or that the dedup filter
\* drops, is not counted as owed.)
C4_QueuedNeverLost ==
  \A t \in owed :
    \/ \E i \in DOMAIN requestQueue : requestQueue[i] = t
    \/ \E i \in DOMAIN timers : timers[i].text = t

\* The rejections the inner catch treats as an abort.
C5_Cancelled(err) == err.name = "AbortError" \/ err.code = "ECONNABORTED"

C6_Message(err) ==
  CASE err.status = 400 -> "Invalid text format"
    [] err.status = 500 -> "Sentiment analysis service unavailable"
    [] err.status = 503 -> "Service temporarily unavailable"
    [] err.status = 504 -> "Failed to analyze sentiment"
    [] err.status = 422 -> "Validation error"
    [] err.code = "ERR_NETWORK" ->
         "Cannot connect to backend. Please ensure the server is running."
    [] OTHER -> err.message

C7_NoSentiment(e) ==
  e.op = "response" /\ e.data.hasData /\ e.data.sentiment.kind # "obj"

C8_Smoothing ==
  [][(/\ lastEvent'.op = "response"
      /\ lastEvent'.data.hasData
      /\ lastEvent'.data.sentiment.kind = "obj") =>
       LET inc == lastEvent'.data.sentiment
       IN  IF sentiment = NoSentiment
           THEN sentiment' = inc
           ELSE /\ sentiment'.kind = "obj"
                /\ sentiment'.type = inc.type
                /\ sentiment'.intensity = inc.intensity
                /\ 10 * sentiment'.score.num * Pow10(sentiment.score.exp) * Pow10(inc.score.exp)
                     = (3 * sentiment.score.num * Pow10(inc.score.exp)
                          + 7 * inc.score.num * Pow10(sentiment.score.exp))
                       * Pow10(sentiment'.score.exp)]_vars

\* 0.9 smoothed by an incoming 0.2: 0.3 * 0.9 + 0.7 * 0.2 = 0.41.
C8_Witness ==
  /\ lastEvent.op = "response"
  /\ lastEvent.data.hasData
  /\ lastEvent.data.sentiment.kind = "obj"
  /\ lastEvent.data.sentiment.score = Score(2, 1)
  /\ sentiment.kind = "obj"
  /\ sentiment.score = Score(41, 2)
  /\ sentiment.type = "negative"
  /\ sentiment.intensity = "weak"

C10_EmptyKeywordsKeepState ==
  [][(/\ lastEvent'.op = "response"
      /\ lastEvent'.data.hasData
      /\ lastEvent'.data.keywords.kind = "array"
      /\ lastEvent'.data.keywords.items = <<>>) =>
       keywords' = keywords]_vars

\* C10, amended: a response changes the keyword state to its keywords array
\* whenever that field is an array, the empty one included; a response with
\* no keywords array leaves the keyword state as it was.
C10_KeywordsFollowArray ==
  [][lastEvent'.op = "response" =>
       IF lastEvent'.data.hasData /\ lastEvent'.data.keywords.kind = "array"
       THEN keywords' = lastEvent'.data.keywords.items
       ELSE keywords' = keywords]_vars

\* An empty keywords array was applied: the keyword state is the empty list.
C10_Witness ==
  /\ lastEvent.op = "response"
  /\ lastEvent.data.hasData
  /\ lastEvent.data.keywords.kind = "array"
  /\ lastEvent.data.keywords.items = <<>>
  /\ keywords = <<>>
  /\ lastProcessedText = lastEvent.text
  /\ sentiment # NoSentiment


\* ===================================================================
\* Part 2: useDeepgram (frontend/src/hooks/useDeepgram.js, lines 16-236)
\* ===================================================================

\* Bounds of the exploration.
MaxConnects == 2
MaxMessages == 2

\* The reconnect policy of the hook: the limit of ws.onclose and the base and
\* the cap of handleReconnect.
MAX_RECONNECTS == 3
BACKOFF_BASE == 1000
BACKOFF_CAP == 10000

\* What ARCHITECTURE.md documents as the delay of a reconnect.
DocumentedDelay(attempt) ==
  LET d == BACKOFF_BASE * 2^attempt IN IF d < BACKOFF_CAP THEN d ELSE BACKOFF_CAP

\* The close codes a close event carries here: normal, going away, abnormal
\* (no close frame), server error.
NORMAL_CLOSE == 1000
ABNORMAL_CLOSE == 1006
ServerCloseCodes == {1000, 1001, 1011}

\* The data of a message event, by what JSON.parse makes of it.  "missing"
\* stands for a property the object does not have.
Messages ==
  { [kind |-> "unparsable"],      \* JSON.parse throws
    [kind |-> "null"],            \* the text null: data.channel throws
    [kind |-> "noChannel"],       \* {"type": "Metadata"}
    [kind |-> "noAlternatives"],  \* {"channel": {}}
    [kind |-> "emptyAlternatives"],  \* {"channel": {"alternatives": []}}
    [kind |-> "result", transcript |-> "missing", is_final |-> "missing",
       speech_final |-> "missing", confidence |-> "missing"],
    [kind |-> "result", transcript |-> "", is_final |-> "true",
       speech_final |-> "true", confidence |-> "0"],
    [kind |-> "result", transcript |-> "hello", is_final |-> "missing",
       speech_final |-> "missing", confidence |-> "missing"],
    [kind |-> "result", transcript |-> "hello", is_final |-> "true",
       speech_final |-> "false", confidence |-> "0.9"],
    [kind |-> "result", transcript |-> "world", is_final |-> "false",
       speech_final |-> "false", confidence |-> "0.5"] }

\* The outcomes of startAudioStreaming: the graph is built, the AudioContext
\* constructor throws, or createMediaStreamSource throws.
StreamingOutcomes == {"ok", "noContext", "noSource"}

\* if (!apiKey)
KeyMissingNever(key) == FALSE

KeyMissing(key) == ~key

\* The condition of ws.onclose under which handleReconnect is called.
ShouldReconnectAnyCode(code, attempts) == attempts < MAX_RECONNECTS

ShouldReconnect(code, attempts) ==
  code # NORMAL_CLOSE /\ attempts < MAX_RECONNECTS

\* reconnectAttempts.current++
NextAttemptWraps(attempts) == IF attempts = 2 THEN 0 ELSE attempts + 1

NextAttempt(attempts) == attempts + 1

\* Math.min(1000 * Math.pow(2, reconnectAttempts.current), 10000), with the
\* counter already incremented.
ReconnectDelayLinear(attempts) ==
  LET d == BACKOFF_BASE * 2 * attempts IN IF d < BACKOFF_CAP THEN d ELSE BACKOFF_CAP

ReconnectDelay(attempts) ==
  LET d == BACKOFF_BASE * 2^attempts IN IF d < BACKOFF_CAP THEN d ELSE BACKOFF_CAP

\* ws.onerror: setError('Connection error occurred')
OnErrorSilent(err) == err

OnError(err) == "Connection error occurred"

\* The guards of ws.onmessage: JSON.parse succeeded and
\* data.channel && data.channel.alternatives && data.channel.alternatives[0]
HasAlternative(m) == m.kind = "result"

\* if (transcriptText)
HasTranscriptAlways(m) == HasAlternative(m)

HasTranscript(m) ==
  HasAlternative(m) /\ m.transcript # "missing" /\ m.transcript # ""

\* x || false, for is_final and speech_final
OrFalse(x) == x = "true"

\* x || 0, for confidence
OrZero(x) == IF x = "missing" THEN "0" ELSE x

\* The argument of onTranscript.
TranscriptEvent(m) ==
  [text |-> m.transcript, is_final |-> OrFalse(m.is_final),
   speech_final |-> OrFalse(m.speech_final), confidence |-> OrZero(m.confidence)]

\* What ws.onmessage passes to onTranscript: nothing or one event.
Deliveries(m) == IF HasTranscript(m) THEN <<TranscriptEvent(m)>> ELSE <<>>

\* setTranscript(transcriptText), when it is called.
MessageTranscript(prev, m) == IF HasTranscript(m) THEN m.transcript ELSE prev

\* A WebSocket just constructed; ws.current holds it.  The state is the
\* readyState; "aborting" is CLOSING reached by close() before the handshake
\* ended, "closing" is CLOSING reached from OPEN.
NewSocket == [state |-> "connecting", current |-> TRUE]

\* ws.current = new WebSocket(...): the socket the ref held stays open, with
\* its handlers.
AddSocket(socks) ==
  Append([i \in DOMAIN socks |-> [socks[i] EXCEPT !.current = FALSE]], NewSocket)

\* WebSocket.close(1000, ...) by readyState.
CloseSocket(state) ==
  CASE state = "connecting" -> "aborting"
    [] state = "open" -> "closing"
    [] OTHER -> state

\* ws.current.close(1000, 'User disconnected'); ws.current = null
CloseCurrent(socks) ==
  [i \in DOMAIN socks |->
     IF socks[i].current
     THEN [state |-> CloseSocket(socks[i].state), current |-> FALSE]
     ELSE socks[i]]

\* clearTimeout(reconnectTimeout.current): the timeout the ref holds is
\* removed if it did not fire yet.
ClearReconnect(ts) == SelectSeq(ts, LAMBDA t : ~t.ref)

\* setTimeout in handleReconnect: the ref now holds the new timeout; the one
\* it held, if any, stays live.
SetReconnect(ts, delay) ==
  Append([i \in DOMAIN ts |-> [ts[i] EXCEPT !.ref = FALSE]],
         [delay |-> delay, ref |-> TRUE])

\* The releases one call makes: WebSocket.close, processor.disconnect,
\* audioContext.close.
NoRelease == [socketClose |-> 0, processorDisconnect |-> 0, contextClose |-> 0]

\* The ref after "if (ref.current) { release; ref.current = null }".
AfterReleaseKept(ref) == ref

AfterRelease(ref) == FALSE

\* stopAudioStreaming: processor.current.disconnect() and
\* audioContext.current.close(), each only when its ref is set.
StopAudioStreaming ==
  /\ dgProcessor' = AfterRelease(dgProcessor)
  /\ dgAudioContext' = AfterRelease(dgAudioContext)

\* The releases stopAudioStreaming makes.
StreamingReleases(proc, ctx) ==
  [NoRelease EXCEPT !.processorDisconnect = IF proc THEN 1 ELSE 0,
                    !.contextClose = IF ctx THEN 1 ELSE 0]

\* The body of connect: without a key the catch block reports the error, with
\* one a new socket replaces ws.current (the socket it held is not closed).
ConnectBody ==
  IF KeyMissing(dgApiKey)
  THEN /\ dgError' = "Deepgram API key is required"
       /\ dgIsConnected' = FALSE
       /\ UNCHANGED <<dgSockets, dgWs>>
  ELSE /\ dgError' = NoError
       /\ dgSockets' = AddSocket(dgSockets)
       /\ dgWs' = "live"
       /\ UNCHANGED dgIsConnected

\* connect(audioStream), called by the owner of the hook.
Connect ==
  /\ dgConnects < MaxConnects
  /\ dgConnects' = dgConnects + 1
  /\ ConnectBody
  /\ dgClosed' = FALSE
  /\ dgEvent' = [op |-> "connect", by |-> "caller"]
  /\ UNCHANGED <<dgTranscript, dgProcessor, dgAudioContext, dgReconnectRef, dgAttempts,
                 dgApiKey, dgTimers, dgBackoff, dgArrived, dgDelivered>>

\* The timeout set by handleReconnect fires: connect(audioStream).  The ref
\* keeps the identifier of the fired timeout.
ReconnectFire(i) ==
  /\ ConnectBody
  /\ dgTimers' = RemoveAt(dgTimers, i)
  /\ dgReconnectRef' = IF dgTimers[i].ref THEN "fired" ELSE dgReconnectRef
  /\ dgEvent' = [op |-> "connect", by |-> "timer"]
  /\ UNCHANGED <<dgTranscript, dgProcessor, dgAudioContext, dgAttempts,
                 dgApiKey, dgBackoff, dgArrived, dgDelivered, dgClosed, dgConnects>>

\* ws.onopen of socket s, with the outcome of startAudioStreaming.
SocketOpen(s, outcome) ==
  /\ dgSockets[s].state = "connecting"
  /\ dgSockets' = [dgSockets EXCEPT ![s].state = "open"]
  /\ dgIsConnected' = TRUE
  /\ dgAttempts' = 0
  /\ dgBackoff' = <<>>
  /\ CASE outcome = "ok" ->
            /\ dgAudioContext' = TRUE
            /\ dgProcessor' = TRUE
            /\ dgError' = NoError
       [] outcome = "noSource" ->
            /\ dgAudioContext' = TRUE
            /\ dgError' = "Failed to process audio"
            /\ UNCHANGED dgProcessor
       [] outcome = "noContext" ->
            /\ dgError' = "Failed to process audio"
            /\ UNCHANGED <<dgAudioContext, dgProcessor>>
  /\ dgEvent' = [op |-> "open", streaming |-> outcome]
  /\ UNCHANGED <<dgTranscript, dgWs, dgReconnectRef, dgApiKey, dgTimers,
                 dgArrived, dgDelivered, dgClosed, dgConnects>>

CanSendAlways(wsRef, socks) == TRUE

\* ws.current && ws.current.readyState === WebSocket.OPEN
CanSend(wsRef, socks) ==
  /\ wsRef # "null"
  /\ \E i \in DOMAIN socks : socks[i].current /\ socks[i].state = "open"

\* processor.onaudioprocess: the frame is encoded and sent on ws.current, or
\* the handler returns without a trace.
AudioProcess ==
  /\ dgProcessor
  /\ dgEvent' = [op |-> "audio", sent |-> CanSend(dgWs, dgSockets)]
  /\ UNCHANGED <<dgState, dgRefs, dgRun, dgBackoff, dgArrived, dgDelivered, dgClosed,
                 dgConnects>>

\* ws.onmessage of socket s with the data m.
SocketMessage(s, m) ==
  /\ dgSockets[s].state \in {"open", "closing"}
  /\ dgArrived < MaxMessages
  /\ dgTranscript' = MessageTranscript(dgTranscript, m)
  /\ dgDelivered' = dgDelivered \o Deliveries(m)
  /\ dgArrived' = dgArrived + 1
  /\ dgEvent' = [op |-> "message", data |-> m]
  /\ UNCHANGED <<dgIsConnected, dgError, dgRefs, dgRun, dgBackoff, dgClosed, dgConnects>>

\* ws.onclose of socket s with the code of the close event; errorBefore is
\* the error state the handler finds.  handleReconnect is part of it.
OnClose(s, code, errorBefore) ==
  /\ dgSockets' = RemoveAt(dgSockets, s)
  /\ dgWs' = IF dgSockets[s].current THEN "closed" ELSE dgWs
  /\ dgIsConnected' = FALSE
  /\ StopAudioStreaming
  /\ IF ShouldReconnect(code, dgAttempts)
     THEN /\ dgAttempts' = NextAttempt(dgAttempts)
          /\ dgError' = "Connection lost. Reconnecting..."
          /\ dgTimers' = SetReconnect(dgTimers, ReconnectDelay(dgAttempts'))
          /\ dgReconnectRef' = "live"
          /\ dgBackoff' = Append(dgBackoff, ReconnectDelay(dgAttempts'))
     ELSE /\ dgError' = errorBefore
          /\ UNCHANGED <<dgAttempts, dgTimers, dgReconnectRef, dgBackoff>>
  /\ dgEvent' = [op |-> "close", code |-> code]
  /\ UNCHANGED <<dgTranscript, dgApiKey, dgArrived, dgDelivered, dgClosed, dgConnects>>

\* The connection of socket s fails (the handshake is refused, the network
\* drops, or close() was called before the handshake ended): the browser
\* fires error and then close with code 1006.
SocketFail(s) ==
  /\ OnClose(s, ABNORMAL_CLOSE, OnError(dgError))

\* The closing handshake of socket s ends, started by the server or by
\* close(): close alone, with the code of the close frame of the server.
SocketClose(s, code) ==
  /\ dgSockets[s].state \in {"open", "closing"}
  /\ OnClose(s, code, dgError)

\* disconnect(), also the cleanup of the unmount effect.
Disconnect ==
  /\ dgTimers' = IF dgReconnectRef # "null" THEN ClearReconnect(dgTimers) ELSE dgTimers
  /\ dgReconnectRef' = "null"
  /\ StopAudioStreaming
  /\ dgSockets' = IF dgWs # "null" THEN CloseCurrent(dgSockets) ELSE dgSockets
  /\ dgWs' = "null"
  /\ dgIsConnected' = FALSE
  /\ dgTranscript' = ""
  /\ dgError' = NoError
  /\ dgAttempts' = 0
  /\ dgBackoff' = <<>>
  /\ dgClosed' = TRUE
  /\ dgEvent' = [op |-> "disconnect", repeat |-> dgEvent.op = "disconnect",
                 attempts |-> dgAttempts,
                 released |-> [StreamingReleases(dgProcessor, dgAudioContext)
                                 EXCEPT !.socketClose = IF dgWs # "null" THEN 1 ELSE 0]]
  /\ UNCHANGED <<dgApiKey, dgArrived, dgDelivered, dgConnects>>

\* The hook alone, driven by its owner, the sockets and the timeouts; the
\* rest of the front end does not move.
InitDeepgramAlone ==
  /\ InitSentiment /\ InitCapture(TRUE) /\ InitApp /\ InitAudioIdle
  /\ \E key \in BOOLEAN : InitDeepgram(key)

NextDeepgram ==
  \/ Connect /\ UNCHANGED dgRest
  \/ (\E i \in DOMAIN dgTimers : ReconnectFire(i)) /\ UNCHANGED dgRest
  \/ (\E s \in DOMAIN dgSockets, outcome \in StreamingOutcomes : SocketOpen(s, outcome))
       /\ UNCHANGED dgRest
  \/ (\E s \in DOMAIN dgSockets, m \in Messages : SocketMessage(s, m)) /\ UNCHANGED dgRest
  \/ (\E s \in DOMAIN dgSockets : SocketFail(s)) /\ UNCHANGED dgRest
  \/ (\E s \in DOMAIN dgSockets, code \in ServerCloseCodes : SocketClose(s, code))
       /\ UNCHANGED dgRest
  \/ Disconnect /\ UNCHANGED dgRest
  \/ AudioProcess /\ UNCHANGED dgRest

SpecDeepgram == InitDeepgramAlone /\ [][NextDeepgram]_vars

\* ------------------------------------------------- claims on useDeepgram

\* The steps that are a close event: ws.onclose ran.
CloseStep == dgEvent'.op = "close" /\ dgSockets' # dgSockets

\* The close event of the step scheduled a reconnect.
Scheduled == Len(dgTimers') = Len(dgTimers) + 1

IsPrefix(p, q) == Len(p) <= Len(q) /\ SubSeq(q, 1, Len(p)) = p

C12_DelayFromAttemptBeforeIncrement ==
  [][(CloseStep /\ Scheduled)
       => dgTimers'[Len(dgTimers')].delay = DocumentedDelay(dgAttempts)]_vars

\* C13: once disconnect() was called and until connect() is called again, no
\* reconnect timeout is pending and no WebSocket is constructed, whatever the
\* sockets of before still deliver.
C13_TerminalAfterDisconnect ==
  [][dgClosed' => /\ dgTimers' = <<>>
                  /\ dgClosed => Len(dgSockets') <= Len(dgSockets)]_vars

\* The messages of the hook that are not a terminal error.
NotTerminal == {NoError, "Connection lost. Reconnecting..."}

\* C14: an abnormal close that finds reconnectAttempts at 3 leaves the hook
\* not connected, schedules no reconnect, and leaves an error other than the
\* reconnecting notice in the error state.
C14_ExhaustedCloseIsTerminal ==
  [][(CloseStep /\ dgEvent'.code # NORMAL_CLOSE /\ dgAttempts = MAX_RECONNECTS)
       => /\ ~dgIsConnected'
          /\ dgTimers' = dgTimers
          /\ dgError' \notin NotTerminal]_vars

\* The fourth socket in a row failed: nothing is left to reconnect.
C14_Witness ==
  /\ dgEvent.op = "close"
  /\ dgEvent.code = ABNORMAL_CLOSE
  /\ dgAttempts = MAX_RECONNECTS
  /\ dgTimers = <<>>
  /\ dgSockets = <<>>
  /\ dgError = "Connection error occurred"

\* C15: a close event schedules a reconnect exactly when its code is not 1000
\* and reconnectAttempts is below 3.
C15_ReconnectIff ==
  [][CloseStep
       => (Scheduled <=> (dgEvent'.code # 1000 /\ dgAttempts < 3))]_vars

\* A close with code 1001 scheduled the first reconnect.
C15_Witness ==
  /\ dgEvent.op = "close"
  /\ dgEvent.code = 1001
  /\ dgBackoff = <<2000>>
  /\ Len(dgTimers) = 1

\* C16 as stated: only the open of a socket sets reconnectAttempts back to 0.
C16_ResetOnlyOnOpen ==
  [][(dgAttempts # 0 /\ dgAttempts' = 0) => dgEvent'.op = "open"]_vars

\* C16 as amended: reconnectAttempts is set back to 0 by the open of a socket
\* and by disconnect(), and by nothing else.
C16_ResetOnOpenOrDisconnect ==
  [][(dgAttempts # 0 /\ dgAttempts' = 0)
       => dgEvent'.op \in {"open", "disconnect"}]_vars

\* disconnect() found the counter at 2 and left it at 0.
C16_Witness ==
  /\ dgEvent.op = "disconnect"
  /\ dgEvent.attempts = 2
  /\ dgAttempts = 0

\* C17: connect() without an API key reports an error, leaves isConnected
\* false, constructs no WebSocket and schedules no reconnect.
C17_NoKeyFailsFast ==
  [][(dgConnects' = dgConnects + 1 /\ ~dgApiKey)
       => /\ dgError' = "Deepgram API key is required"
          /\ ~dgIsConnected'
          /\ UNCHANGED <<dgSockets, dgWs, dgTimers, dgReconnectRef, dgAttempts>>]_vars

\* connect() was called twice without a key.
C17_Witness ==
  /\ ~dgApiKey
  /\ dgConnects = 2
  /\ dgEvent.op = "connect"
  /\ dgError # NoError

\* C18: a message that does not parse or has no channel.alternatives[0]
\* changes nothing of the hook; a message with an empty transcript calls
\* nothing; a message with a transcript adds one call of onTranscript with
\* that text behind the calls of the messages that arrived before it; no
\* message changes the connection state or the error state.
C18_MessageHandling ==
  [][dgArrived' = dgArrived + 1 =>
       LET m == dgEvent'.data IN
       /\ UNCHANGED <<dgIsConnected, dgError, dgRefs, dgRun>>
       /\ m.kind # "result" => UNCHANGED <<dgTranscript, dgDelivered>>
       /\ (m.kind = "result" /\ m.transcript \in {"", "missing"})
            => UNCHANGED dgDelivered
       /\ (m.kind = "result" /\ m.transcript \notin {"", "missing"})
            => /\ Len(dgDelivered') = Len(dgDelivered) + 1
               /\ SubSeq(dgDelivered', 1, Len(dgDelivered)) = dgDelivered
               /\ dgDelivered'[Len(dgDelivered')].text = m.transcript]_vars

\* Two messages with different transcripts arrived and were passed on.
C18_Witness ==
  /\ dgArrived = 2
  /\ Len(dgDelivered) = 2
  /\ dgDelivered[1].text = "world"
  /\ dgDelivered[2].text = "hello"
  /\ dgEvent.op = "message"


\* ===================================================================
\* Part 3: useAudioCapture (frontend/src/hooks/useDeepgram.js, lines 252-483)
\* Part 4: App.handleStart and App.handleStop (part_007)
\* ===================================================================

\* Bound of the exploration: the clicks on Start.
MaxStarts == 2

\* The names getUserMedia rejects with here: permission refused, no device,
\* device busy, constraints not satisfiable, a bad configuration, and a name
\* the catch block has no case for.
RejectNames ==
  {"NotAllowedError", "NotFoundError", "NotReadableError",
   "OverconstrainedError", "TypeError", "AbortError"}

\* The error checkBrowserSupport throws: a plain Error, whose name is 'Error'.
UnsupportedError ==
  [name |-> "Error",
   message |-> "Your browser does not support audio recording. Please use a modern browser."]

\* The kind of failure a rejection of getUserMedia with this name stands for.
FailureKind(name) ==
  CASE name \in {"NotAllowedError", "PermissionDeniedError"} -> "permission"
    [] name \in {"NotFoundError", "DevicesNotFoundError"} -> "notFound"
    [] name \in {"NotReadableError", "TrackStartError"} -> "busy"
    [] name \in {"OverconstrainedError", "ConstraintNotSatisfiedError"} -> "constraint"
    [] name = "TypeError" -> "configuration"
    [] OTHER -> "other"

\* The message the catch block of startCapture starts from.
GenericMessage == "Failed to access microphone"

\* The message of the catch block of startCapture for the name of the error
\* it caught.
CaptureErrorMessage(name) ==
  CASE name \in {"NotAllowedError", "PermissionDeniedError"} ->
         "Microphone access denied. Please grant permission and try again."
    [] name \in {"NotFoundError", "DevicesNotFoundError"} ->
         "No microphone found. Please connect a microphone and try again."
    [] name \in {"NotReadableError", "TrackStartError"} ->
         "Microphone is already in use by another application."
    [] name \in {"OverconstrainedError", "ConstraintNotSatisfiedError"} ->
         "Your microphone does not support the required settings."
    [] name = "TypeError" ->
         "Invalid configuration. Please refresh and try again."
    [] OTHER -> GenericMessage

\* The audio track of a stream just obtained: mediaStream.current holds its
\* stream and audioTracks.current holds it.
NewTrack == [live |-> TRUE, inTracks |-> TRUE, inStream |-> TRUE]

\* A track that can still do something: end, or be stopped through a ref.
Kept(t) == t.live \/ t.inTracks \/ t.inStream

\* mediaStream.current = audioStream; audioTracks.current = getAudioTracks():
\* the stream the refs held is not stopped.
HoldNew(tracks) ==
  Append(SelectSeq([i \in DOMAIN tracks |->
                      [tracks[i] EXCEPT !.inTracks = FALSE, !.inStream = FALSE]],
                   Kept),
         NewTrack)

\* The calls of track.stop() that stopCapture makes on one track: one through
\* audioTracks.current and one through mediaStream.current.getTracks().
StopCalls(t) == (IF t.inTracks THEN 1 ELSE 0) + (IF t.inStream THEN 1 ELSE 0)

\* The tracks after stopCapture: the held ones are stopped and both refs are
\* emptied.
StoppedTracks(tracks) ==
  SelectSeq([i \in DOMAIN tracks |->
               IF StopCalls(tracks[i]) > 0
               THEN [live |-> FALSE, inTracks |-> FALSE, inStream |-> FALSE]
               ELSE tracks[i]],
            Kept)

\* The largest number of stop() calls stopCapture makes on one track.
MaxStopCalls(tracks) ==
  IF \E i \in DOMAIN tracks : StopCalls(tracks[i]) = 2 THEN 2
  ELSE IF \E i \in DOMAIN tracks : StopCalls(tracks[i]) = 1 THEN 1 ELSE 0

\* The release calls of stopCapture, in the order of the code.
CaptureCalls(tracks, ctx) ==
  [i \in 1..Cardinality({t \in DOMAIN tracks : tracks[t].inTracks})
     |-> [by |-> "capture", call |-> "track.stop"]]
  \o [i \in 1..Cardinality({t \in DOMAIN tracks : tracks[t].inStream})
     |-> [by |-> "capture", call |-> "track.stop"]]
  \o (IF ctx THEN <<[by |-> "capture", call |-> "setTimeout(audioContext.close)"]>>
      ELSE <<>>)

\* The release calls of disconnect, in the order of the code.
TranscriptionCalls(ref, proc, ctx, ws) ==
  (IF ref # "null" THEN <<[by |-> "transcription", call |-> "clearTimeout"]>> ELSE <<>>)
  \o (IF proc THEN <<[by |-> "transcription", call |-> "processor.disconnect"]>>
      ELSE <<>>)
  \o (IF ctx THEN <<[by |-> "transcription", call |-> "audioContext.close"]>> ELSE <<>>)
  \o (IF ws # "null" THEN <<[by |-> "transcription", call |-> "ws.close"]>> ELSE <<>>)

\* handleStop: stopCapture(); disconnectDeepgram();
HandleStopOrderSwapped(capture, transcription) == transcription \o capture

HandleStopOrder(capture, transcription) == capture \o transcription

\* stopCapture, on the tracks it finds.
StopCaptureOn(tracks) ==
  /\ cpTracks' = StoppedTracks(tracks)
  /\ cpTimers' = cpTimers + (IF cpAudioContext THEN 1 ELSE 0)
  /\ cpStream' = FALSE
  /\ cpIsCapturing' = FALSE
  /\ cpError' = NoError
  /\ cpEvent' = [op |-> "stopCapture", repeat |-> cpEvent.op = "stopCapture",
                 released |-> [trackStop |-> MaxStopCalls(tracks),
                               contextTimer |-> IF cpAudioContext THEN 1 ELSE 0]]
  /\ UNCHANGED <<cpPermission, cpAudioContext, cpPending, cpSupported>>

\* stopCapture().
StopCapture == StopCaptureOn(cpTracks)

\* The effect of App that copies the error of a hook into the error of App,
\* run after a render in which one of them changed; own is the value the
\* handler itself gave to setError.
ErrorEffect(own) ==
  LET active == IF cpError' # NoError THEN cpError'
                ELSE IF dgError' # NoError THEN dgError' ELSE error'
      changed == cpError' # cpError \/ dgError' # dgError \/ error' # error
  IN appError' = IF changed /\ active # NoError THEN active ELSE own

\* The catch block of handleStart: setError(err.message); setIsRecording(false).
HandleStartCatchKeepsRecording(message) == [error |-> message, isRecording |-> TRUE]

HandleStartCatch(message) == [error |-> message, isRecording |-> FALSE]

\* A click on Start: handleStart up to its first await.  The button is
\* enabled when App is not recording and shows no error.  In a browser
\* without the capture API checkBrowserSupport throws: the catch block of
\* startCapture and then the one of handleStart run.  Otherwise startCapture
\* returns the stream it holds when it is capturing, and asks getUserMedia
\* when it is not; with the stream at hand, handleStart goes on to connect.
HandleStart ==
  /\ appMounted
  /\ ~appIsRecording
  /\ appError = NoError
  /\ appStarts < MaxStarts
  /\ appStarts' = appStarts + 1
  /\ IF ~cpSupported
     THEN /\ cpError' = CaptureErrorMessage(UnsupportedError.name)
          /\ cpIsCapturing' = FALSE
          /\ cpEvent' = [op |-> "rejected", name |-> UnsupportedError.name,
                                            kind |-> "unsupported"]
          /\ appIsRecording' =
               HandleStartCatch(CaptureErrorMessage(UnsupportedError.name)).isRecording
          /\ appEvent' = [op |-> "startFailed"]
          /\ UNCHANGED <<cpStream, cpPermission, cpRefs, cpRun, dgVars>>
     ELSE /\ cpError' = NoError
          /\ appIsRecording' = TRUE
          /\ cpEvent' = [op |-> "startCapture"]
          /\ appEvent' = [op |-> "start"]
          /\ IF cpIsCapturing /\ \E t \in DOMAIN cpTracks : cpTracks[t].inStream
             THEN /\ UNCHANGED <<cpStream, cpIsCapturing, cpPermission, cpRefs, cpRun>>
                  /\ Connect
             ELSE /\ cpIsCapturing' = TRUE
                  /\ cpPending' = cpPending + 1
                  /\ UNCHANGED <<cpStream, cpPermission, cpRefs, cpTimers,
                                 cpSupported, dgVars>>
  /\ UNCHANGED <<spVars, appLogs, auVars, appMounted>>
  /\ ErrorEffect(IF cpSupported THEN NoError
                 ELSE HandleStartCatch(CaptureErrorMessage(UnsupportedError.name)).error)

\* getUserMedia resolves: the rest of startCapture, and then the rest of
\* handleStart, which connects with the stream.
GetUserMediaResolve ==
  /\ cpPending > 0
  /\ cpPending' = cpPending - 1
  /\ cpTracks' = HoldNew(cpTracks)
  /\ cpAudioContext' = TRUE
  /\ cpStream' = TRUE
  /\ cpPermission' = "granted"
  /\ cpEvent' = [op |-> "captured"]
  /\ Connect
  /\ appEvent' = [op |-> "connect"]
  /\ UNCHANGED <<spVars, appLogs, auVars, cpError, cpIsCapturing, cpTimers, cpSupported,
                 appIsRecording, appMounted, appStarts>>
  /\ ErrorEffect(appError)

\* getUserMedia rejects: the catch block of startCapture, and then the catch
\* block of handleStart.
GetUserMediaReject(name) ==
  /\ cpPending > 0
  /\ cpPending' = cpPending - 1
  /\ cpIsCapturing' = FALSE
  /\ cpError' = CaptureErrorMessage(name)
  /\ cpPermission' = IF name \in {"NotAllowedError", "PermissionDeniedError"}
                     THEN "denied" ELSE cpPermission
  /\ cpEvent' = [op |-> "rejected", name |-> name, kind |-> FailureKind(name)]
  /\ appIsRecording' = HandleStartCatch(CaptureErrorMessage(name)).isRecording
  /\ appEvent' = [op |-> "startFailed"]
  /\ UNCHANGED <<spVars, appLogs, auVars, dgVars, cpStream, cpRefs, cpTimers, cpSupported,
                 appMounted, appStarts>>
  /\ ErrorEffect(HandleStartCatch(CaptureErrorMessage(name)).error)

\* A click on Stop: handleStop.
HandleStop ==
  /\ appMounted
  /\ appIsRecording
  /\ appIsRecording' = FALSE
  /\ StopCapture
  /\ Disconnect
  /\ appEvent' = [op |-> "stop",
                  calls |-> HandleStopOrder(
                    CaptureCalls(cpTracks, cpAudioContext),
                    TranscriptionCalls(dgReconnectRef, dgProcessor, dgAudioContext, dgWs))]
  /\ UNCHANGED <<spVars, appLogs, auVars, appMounted, appStarts>>
  /\ ErrorEffect(appError)

\* App unmounts: the cleanups of the effects of useAudioCapture and of
\* useDeepgram run, stopCapture() and disconnect().
UnmountApp ==
  /\ appMounted
  /\ appMounted' = FALSE
  /\ StopCapture
  /\ Disconnect
  /\ appEvent' = [op |-> "unmount"]
  /\ UNCHANGED <<spVars, appLogs, auVars, appIsRecording, appError, appStarts>>

\* The device of a live track goes away: the track ends and its 'ended'
\* listener calls stopCapture().
TrackEnded(t) ==
  /\ cpTracks[t].live
  /\ StopCaptureOn([cpTracks EXCEPT ![t].live = FALSE])
  /\ appEvent' = [op |-> "trackEnded"]
  /\ UNCHANGED <<spVars, appLogs, auVars, dgVars, appIsRecording, appMounted, appStarts>>
  /\ ErrorEffect(appError)

\* A timeout of stopCapture fires: the context is closed if the ref still
\* holds one, and the ref is emptied.
ContextCloseFire ==
  /\ cpTimers > 0
  /\ cpTimers' = cpTimers - 1
  /\ cpAudioContext' = FALSE
  /\ cpEvent' = [op |-> "contextClose", closed |-> cpAudioContext]
  /\ UNCHANGED <<spVars, appLogs, auVars, dgVars, appVars, cpState, cpTracks, cpPending, cpSupported>>

\* The close codes of the server in a session: the normal close, and one of
\* the others, which onclose treats alike.
SessionCloseCodes == {NORMAL_CLOSE, 1001}

\* The outcomes of startAudioStreaming in a session: the graph is built, or
\* it fails half way and leaves the AudioContext it created.
SessionOutcomes == {"ok", "noSource"}

\* An event of a socket or of a reconnect timeout, seen from App.
SessionSocketEvent(A) ==
  /\ A
  /\ UNCHANGED <<spVars, appLogs, auVars, cpVars, appIsRecording, appMounted, appStarts, appEvent>>
  /\ ErrorEffect(appError)

\* A session of App: clicks on Start and Stop, the unmount, and what the
\* microphone, the sockets and the timers do.  No transcript arrives.
InitSession ==
  InitSentiment /\ (\E supported \in BOOLEAN : InitCapture(supported)) /\ InitApp
    /\ InitDeepgram(TRUE) /\ InitAudioIdle

NextSession ==
  \/ HandleStart
  \/ GetUserMediaResolve
  \/ \E name \in RejectNames : GetUserMediaReject(name)
  \/ HandleStop
  \/ UnmountApp
  \/ \E t \in DOMAIN cpTracks : TrackEnded(t)
  \/ ContextCloseFire
  \/ \E i \in DOMAIN dgTimers : SessionSocketEvent(ReconnectFire(i))
  \/ \E s \in DOMAIN dgSockets, outcome \in SessionOutcomes :
       SessionSocketEvent(SocketOpen(s, outcome))
  \/ \E s \in DOMAIN dgSockets : SessionSocketEvent(SocketFail(s))
  \/ \E s \in DOMAIN dgSockets, code \in SessionCloseCodes :
       SessionSocketEvent(SocketClose(s, code))

SpecSession == InitSession /\ [][NextSession]_vars

\* ------------------------------------------------- claims on the teardown

\* disconnect() runs directly after disconnect(); stopCapture() runs directly
\* after stopCapture().
DisconnectAgain ==
  dgEvent.op = "disconnect" /\ dgEvent'.op = "disconnect" /\ dgEvent'.repeat

StopCaptureAgain ==
  cpEvent.op = "stopCapture" /\ cpEvent'.op = "stopCapture" /\ cpEvent'.repeat

\* What the refs mediaStream.current and audioTracks.current hold.
HeldTracks(tracks) == SelectSeq(tracks, LAMBDA t : t.inTracks \/ t.inStream)

\* C19 as stated: a call of disconnect() or of stopCapture() releases each
\* resource at most once, and the second of two calls in succession leaves
\* the state of the first.
C19_ReleasedAtMostOnce ==
  [][/\ dgEvent'.op = "disconnect"
          => /\ dgEvent'.released.socketClose <= 1
             /\ dgEvent'.released.processorDisconnect <= 1
             /\ dgEvent'.released.contextClose <= 1
     /\ cpEvent'.op = "stopCapture" => cpEvent'.released.trackStop <= 1
     /\ DisconnectAgain => UNCHANGED <<dgState, dgRefs, dgRun>>
     /\ StopCaptureAgain
          => /\ UNCHANGED <<cpState, cpAudioContext, cpRun>>
             /\ HeldTracks(cpTracks') = HeldTracks(cpTracks)]_vars

\* C19 as amended: the second of two calls in succession releases nothing
\* and leaves the state and the refs of its hook as they were; of
\* stopCapture() it may add one more timeout for the close of the context.
C19_SecondCallReleasesNothing ==
  [][/\ DisconnectAgain
          => /\ UNCHANGED <<dgState, dgRefs, dgRun>>
             /\ dgEvent'.released = NoRelease
     /\ StopCaptureAgain
          => /\ UNCHANGED <<cpState, cpAudioContext, cpPending>>
             /\ HeldTracks(cpTracks') = HeldTracks(cpTracks)
             /\ cpEvent'.released.trackStop = 0
             /\ cpTimers' \in {cpTimers, cpTimers + 1}]_vars

\* App unmounted directly after a click on Stop, within 100 ms: both hooks
\* were torn down twice, and two timeouts wait to close the one context.
C19_Witness ==
  /\ appEvent.op = "unmount"
  /\ dgEvent.op = "disconnect"
  /\ dgEvent.repeat
  /\ cpEvent.op = "stopCapture"
  /\ cpEvent.repeat
  /\ cpEvent.released.contextTimer = 1
  /\ cpTimers = 2
  /\ cpAudioContext

\* The positions of the calls of one hook in the calls of handleStop.
CallsBy(who) ==
  {i \in DOMAIN appEvent.calls : appEvent.calls[i].by = who}

\* C20 as stated: handleStop makes every release call of the transcription
\* connection before every release call of the microphone capture.
C20_TranscriptionBeforeCapture ==
  appEvent.op = "stop"
    => \A i \in CallsBy("transcription"), j \in CallsBy("capture") : i < j

\* C20 as amended: handleStop makes every release call of the microphone
\* capture before every release call of the transcription connection.
C20_CaptureBeforeTranscription ==
  appEvent.op = "stop"
    => \A i \in CallsBy("capture"), j \in CallsBy("transcription") : i < j

\* A click on Stop while the socket was open and audio was forwarded: tracks
\* stopped, then the processor disconnected and the socket closed.
C20_Witness ==
  /\ appEvent.op = "stop"
  /\ \E i \in CallsBy("capture") : appEvent.calls[i].call = "track.stop"
  /\ \E j \in CallsBy("transcription") : appEvent.calls[j].call = "processor.disconnect"
  /\ \E j \in CallsBy("transcription") : appEvent.calls[j].call = "ws.close"

\* ------------------------------------------------- claims on the capture

\* The tracks that are running.
LiveTracks == {t \in DOMAIN cpTracks : cpTracks[t].live}

\* C22: at most one stream of the microphone is live at any time, and every
\* live track is one that stopCapture() reaches through mediaStream.current
\* or audioTracks.current.
C22_OneReachableStream ==
  /\ Cardinality(LiveTracks) <= 1
  /\ \A t \in LiveTracks : cpTracks[t].inTracks \/ cpTracks[t].inStream

\* The steps in which a track ended and its listener ran.
TrackEndedStep == appEvent'.op = "trackEnded" /\ cpTracks' # cpTracks

\* C23: when a track ends on its own, the capture is torn down as by
\* stopCapture() and App does not stay in the recording state without an
\* error in its error slot.
C23_TrackEndedSurfaces ==
  [][TrackEndedStep
       => /\ ~cpStream' /\ ~cpIsCapturing'
          /\ HeldTracks(cpTracks') = <<>>
          /\ appIsRecording' => appError' # NoError]_vars


\* The kinds of failure that have a message of their own.
NamedKinds == {"permission", "notFound", "busy", "constraint", "unsupported"}

\* The names of the errors startCapture can catch, with their kinds.
CaughtErrors ==
  {[name |-> n, kind |-> FailureKind(n)] :
     n \in {"NotAllowedError", "PermissionDeniedError", "NotFoundError",
            "DevicesNotFoundError", "NotReadableError", "TrackStartError",
            "OverconstrainedError", "ConstraintNotSatisfiedError"}}
  \cup {[name |-> UnsupportedError.name, kind |-> "unsupported"]}

\* C24: each kind of failure of startCapture (permission denied, no device,
\* device busy, constraints not satisfiable, no capture API) has a message of
\* its own, and a failure of one of these kinds never ends with the generic
\* message.
C24_MessagePerKind ==
  /\ \A e1, e2 \in CaughtErrors :
       e1.kind # e2.kind
         => CaptureErrorMessage(e1.name) # CaptureErrorMessage(e2.name)
  /\ (cpEvent.op = "rejected" /\ cpEvent.kind \in NamedKinds)
       => cpError # GenericMessage


\* The steps in which the owner of the hooks calls connect().
CallerConnectStep ==
  dgEvent'.op = "connect" /\ dgEvent'.by = "caller" /\ dgConnects' = dgConnects + 1

\* The steps in which startCapture() fails.
CaptureFailStep ==
  cpEvent'.op = "rejected" /\ (cpPending' = cpPending - 1 \/ appStarts' = appStarts + 1)

\* C25: handleStart connects the transcription only in a step in which the
\* capture holds a live stream of the microphone; when the capture fails no
\* connection is attempted, the error of App is the message of the failure
\* and isRecording is false.
C25_CaptureThenConnect ==
  [][/\ CallerConnectStep
          => /\ appEvent'.op \in {"start", "connect"}
             /\ \E t \in DOMAIN cpTracks' : cpTracks'[t].live /\ cpTracks'[t].inStream
     /\ CaptureFailStep
          => /\ UNCHANGED dgVars
             /\ cpError' # NoError
             /\ appError' = cpError'
             /\ ~appIsRecording']_vars

\* A capture refused by the user: nothing was connected, App shows the
\* message and is not recording.
C25_Witness ==
  /\ cpEvent.op = "rejected" /\ cpEvent.kind = "permission"
  /\ appEvent.op = "startFailed"
  /\ dgConnects = 0 /\ dgSockets = <<>>
  /\ appError = cpError /\ cpError # NoError
  /\ ~appIsRecording


\* A hook raises an error: its error state changes to a message.
Raised(old, new) == new # NoError /\ new # old

\* C26: the error of App shows the error a hook raised last, whichever hook
\* it was, and a step that only sets the error of App changes neither the
\* recording state nor the sentiment and the keywords.
C26_LastErrorWins ==
  [][/\ (Raised(cpError, cpError') /\ ~Raised(dgError, dgError') /\ ~Raised(error, error'))
          => appError' = cpError'
     /\ (Raised(dgError, dgError') /\ ~Raised(cpError, cpError') /\ ~Raised(error, error'))
          => appError' = dgError'
     /\ (Raised(error, error') /\ ~Raised(cpError, cpError') /\ ~Raised(dgError, dgError'))
          => appError' = error'
     /\ (appError' # appError /\ appEvent' = appEvent)
          => UNCHANGED <<appIsRecording, sentiment, keywords>>]_vars


\* ---------------------------------------------------------------------------
\* Part 5, the audio utilities (frontend/src/utils/audioUtils.js).  A sample
\* is a rational num / den (den > 0) or NaN.

\* Bounds of the exploration: the length of a buffer, and the sample rates
\* (in a common unit).
MaxSamples == 3
MaxRate == 3

\* 0x8000 and 0x7FFF.
INT16_NEG_SCALE == 32768
INT16_POS_SCALE == 32767

F(n, d) == [kind |-> "num", num |-> n, den |-> d]

NaN == [kind |-> "nan"]

\* The samples of the buffers: -2, -1, -1/2, 0, 1/2, 1, 3/2 and NaN.
Samples == {F(-2, 1), F(-1, 1), F(-1, 2), F(0, 1), F(1, 2), F(1, 1), F(3, 2), NaN}

Buffers == UNION {[1..n -> Samples] : n \in 0..MaxSamples}

Rates == 1..MaxRate

\* a < b, which is false when one of them is NaN.
Less(a, b) ==
  a.kind = "num" /\ b.kind = "num" /\ a.num * b.den < b.num * a.den

\* Math.min and Math.max of two numbers: NaN when one of them is NaN.
MathMin(a, b) ==
  IF a.kind = "nan" \/ b.kind = "nan" THEN NaN ELSE IF Less(b, a) THEN b ELSE a

MathMax(a, b) ==
  IF a.kind = "nan" \/ b.kind = "nan" THEN NaN ELSE IF Less(a, b) THEN b ELSE a

\* Math.max(-1, Math.min(1, buffer[i]))
ClampNone(sample) == sample

Clamp(sample) == MathMax(F(-1, 1), MathMin(F(1, 1), sample))

\* sample < 0 ? sample * 0x8000 : sample * 0x7FFF
Scale(sample) ==
  IF sample.kind = "nan" THEN NaN
  ELSE IF Less(sample, F(0, 1)) THEN F(sample.num * INT16_NEG_SCALE, sample.den)
  ELSE F(sample.num * INT16_POS_SCALE, sample.den)

\* The integer part of a number, towards zero.
Trunc(x) == IF x.num >= 0 THEN x.num \div x.den ELSE -((-x.num) \div x.den)

\* The store into an Int16Array: NaN becomes 0, a number is truncated and
\* taken modulo 2^16 into -32768..32767.
ToInt16(x) ==
  IF x.kind = "nan" THEN 0
  ELSE LET m == Trunc(x) % 65536 IN IF m >= 32768 THEN m - 65536 ELSE m

\* convertFloat32ToInt16(buffer)
ConvertFloat32ToInt16(buffer) ==
  [i \in 1..Len(buffer) |-> ToInt16(Scale(Clamp(buffer[i])))]

\* Math.round(n / d) for n >= 0 and d > 0: halves go up.
RoundHalfUp(n, d) == (2 * n + d) \div (2 * d)

\* Math.round(audioData.length / (fromSampleRate / toSampleRate))
NewLength(len, from, to) == RoundHalfUp(len * to, from)

\* srcIndexInt + 1 < audioData.length
HasNextAlways(index, len) == TRUE

HasNext(index, len) == index + 1 < len

\* audioData[k], with k counted from 0: undefined outside the array, which is
\* NaN in arithmetic and in a Float32Array.
ReadSample(data, k) == IF k \in 0..(Len(data) - 1) THEN data[k + 1] ELSE NaN

\* a * (1 - r/to) + b * (r/to), as the real number the expression denotes.
Interpolate(a, b, r, to) ==
  IF a.kind = "nan" \/ b.kind = "nan" THEN NaN
  ELSE F(a.num * b.den * (to - r) + b.num * a.den * r, a.den * b.den * to)

\* The body of the loop of resampleAudio for the output index i (from 0):
\* srcIndex = i * ratio = (i * from) / to.
ResampleSample(data, i, from, to) ==
  LET srcIndexInt == (i * from) \div to
      frac == (i * from) % to
  IN IF HasNext(srcIndexInt, Len(data))
     THEN Interpolate(ReadSample(data, srcIndexInt),
                      ReadSample(data, srcIndexInt + 1), frac, to)
     ELSE ReadSample(data, srcIndexInt)

\* The indices of audioData the loop reads for the output index i.
ResampleReads(data, i, from, to) ==
  LET srcIndexInt == (i * from) \div to
  IN {srcIndexInt}
       \cup (IF HasNext(srcIndexInt, Len(data)) THEN {srcIndexInt + 1} ELSE {})

\* resampleAudio(audioData, fromSampleRate, toSampleRate), for an array and
\* positive rates.
ResampleAudio(data, from, to) ==
  IF from = to THEN data
  ELSE [i \in 1..NewLength(Len(data), from, to) |-> ResampleSample(data, i - 1, from, to)]

\* What the other parts are when the utilities are checked by themselves.
auRest == <<spVars, dgVars, cpVars, appVars, appLogs>>

\* The arguments of the calls: a buffer and two positive rates.
InitAudio ==
  /\ auInput \in Buffers
  /\ auFrom \in Rates
  /\ auTo \in Rates
  /\ auOutput = <<>>
  /\ auEvent = [op |-> "init"]

\* A call of convertFloat32ToInt16(auInput).
CallConvert ==
  /\ auOutput' = ConvertFloat32ToInt16(auInput)
  /\ auEvent' = [op |-> "convertFloat32ToInt16"]
  /\ UNCHANGED <<auInput, auFrom, auTo>>

\* A call of resampleAudio(auInput, auFrom, auTo).
CallResample ==
  /\ auOutput' = ResampleAudio(auInput, auFrom, auTo)
  /\ auEvent' =
       [op |-> "resampleAudio",
        reads |-> IF auFrom = auTo THEN {}
                  ELSE UNION {ResampleReads(auInput, i, auFrom, auTo) :
                                i \in 0..(NewLength(Len(auInput), auFrom, auTo) - 1)}]
  /\ UNCHANGED <<auInput, auFrom, auTo>>

InitAudioAlone ==
  InitSentiment /\ InitDeepgram(TRUE) /\ InitCapture(TRUE) /\ InitApp /\ InitAudio

NextAudio ==
  \/ CallConvert /\ UNCHANGED auRest
  \/ CallResample /\ UNCHANGED auRest

SpecAudio == InitAudioAlone /\ [][NextAudio]_vars

\* ------------------------------------------- claims on the audio utilities
\* C29: convertFloat32ToInt16 gives one value of -32768..32767 for each
\* sample; 1 gives 32767, -1 gives -32768, 0 gives 0, and a sample outside
\* [-1, 1] gives what the nearer end of the range gives.
C29_ConvertClampsAndScales ==
  auEvent.op = "convertFloat32ToInt16"
    => /\ Len(auOutput) = Len(auInput)
       /\ \A i \in DOMAIN auInput :
            /\ auOutput[i] \in -32768..32767
            /\ auInput[i] = F(1, 1) => auOutput[i] = 32767
            /\ auInput[i] = F(-1, 1) => auOutput[i] = -32768
            /\ auInput[i] = F(0, 1) => auOutput[i] = 0
            /\ Less(F(1, 1), auInput[i]) => auOutput[i] = 32767
            /\ Less(auInput[i], F(-1, 1)) => auOutput[i] = -32768

\* A buffer with samples beyond both ends of the range was converted.
C29_Witness ==
  /\ auEvent.op = "convertFloat32ToInt16"
  /\ \E i, j \in DOMAIN auInput :
       /\ auInput[i] = F(-2, 1) /\ auOutput[i] = -32768
       /\ auInput[j] = F(3, 2) /\ auOutput[j] = 32767

\* C30: resampleAudio returns its input when the rates are equal; otherwise
\* the length of the result is inputLength / (from / to) rounded to the
\* nearest integer, and every index it reads is inside the input.
C30_ResampleLengthAndIndices ==
  auEvent.op = "resampleAudio"
    => IF auFrom = auTo THEN auOutput = auInput
       ELSE /\ (2 * Len(auOutput) - 1) * auFrom <= 2 * Len(auInput) * auTo
            /\ 2 * Len(auInput) * auTo < (2 * Len(auOutput) + 1) * auFrom
            /\ auEvent.reads \subseteq 0..(Len(auInput) - 1)

\* A buffer was resampled to another rate, up to its last sample.
C30_Witness ==
  /\ auEvent.op = "resampleAudio"
  /\ auFrom # auTo
  /\ Len(auOutput) > 0 /\ Len(auOutput) # Len(auInput)
  /\ (Len(auInput) - 1) \in auEvent.reads


\* ---------------------------------------------------------------------------
\* Part 4, continued: the logs of App (part_007, lines 53-67 and 107-117).
\* The timestamp of a transcript entry and the id of a keyword entry are
\* readings of the clock and are left out.

\* Bounds of the exploration: the transcripts that reach handleTranscript and
\* the keyword batches that reach the log.
MaxTranscripts == 4
MaxBatches == 8

\* slice(-20), and the delay between two keywords of a batch.
KEYWORD_CAP == 20
KEYWORD_STAGGER == 150

\* The keyword arrays the effect is run with.
KeywordBatches == {<<>>, <<"love", "amazing">>, <<"calm", "bright", "day">>}

\* The interim transcripts onTranscript is called with.
InterimEvents ==
  {TranscriptEvent(m) : m \in {n \in Messages : HasTranscript(n) /\ ~OrFalse(n.is_final)}}

\* A transcript text as its characters.
Characters(text) ==
  CASE text = "hello" -> <<"h", "e", "l", "l", "o">>
    [] text = "world" -> <<"w", "o", "r", "l", "d">>
    [] OTHER -> <<>>

\* if (data.text && data.text.trim())
ShowsTranscript(data) == data.text # "" /\ Trim(Characters(data.text)) # <<>>

\* setTranscript(prev => [...prev, {text, timestamp, isFinal}])
AppendTranscript(prev, data) ==
  IF ShowsTranscript(data)
  THEN Append(prev, [text |-> data.text, isFinal |-> data.is_final])
  ELSE prev

\* keywords.map((keyword, index) => ({text, id, delay: index * 150}))
KeywordEntries(batch) ==
  [i \in DOMAIN batch |-> [text |-> batch[i], delay |-> (i - 1) * KEYWORD_STAGGER]]

\* seq.slice(-n)
KeepFirst(seq, n) == IF Len(seq) <= n THEN seq ELSE SubSeq(seq, 1, n)

KeepLast(seq, n) == IF Len(seq) <= n THEN seq ELSE SubSeq(seq, Len(seq) - n + 1, Len(seq))

\* The body of the effect on keywords, as the new value of currentKeywords.
KeywordsEffect(prev, batch) ==
  IF Len(batch) > 0 THEN KeepLast(prev \o KeywordEntries(batch), KEYWORD_CAP) ELSE prev

\* handleTranscript(data) with an interim transcript: processText is not
\* called.
HandleInterimTranscript(data) ==
  /\ ~data.is_final
  /\ Len(appTranscript) < MaxTranscripts
  /\ appTranscript' = AppendTranscript(appTranscript, data)
  /\ appEvent' = [op |-> "transcript", data |-> data]
  /\ UNCHANGED <<spVars, dgVars, cpVars, auVars, appSentiment, appKeywords, appBatches,
                 appIsRecording, appError, appMounted, appStarts>>

\* The effect on keywords runs with the array the hook returned.
RunKeywordsEffect(batch) ==
  /\ appBatches < MaxBatches
  /\ appKeywords' = KeywordsEffect(appKeywords, batch)
  /\ appBatches' = appBatches + (IF Len(batch) > 0 THEN 1 ELSE 0)
  /\ appEvent' = [op |-> "keywords", batch |-> batch,
                  dropped |-> Len(appKeywords) + Len(batch) - Len(appKeywords')]
  /\ UNCHANGED <<spVars, dgVars, cpVars, auVars, appTranscript, appSentiment,
                 appIsRecording, appError, appMounted, appStarts>>

\* The logs of App by themselves.
InitLogs ==
  /\ InitSentiment /\ InitDeepgram(TRUE) /\ InitCapture(TRUE) /\ InitApp /\ InitAudioIdle

NextLogs ==
  \/ \E data \in InterimEvents : HandleInterimTranscript(data)
  \/ \E batch \in KeywordBatches : RunKeywordsEffect(batch)

SpecLogs == InitLogs /\ [][NextLogs]_vars

\* -------------------------------------------------- claims on the logs
\* C27: the transcript log only grows at its end, in the order of arrival,
\* and its length stays under a fixed bound however many transcripts arrive
\* (here: under the number of transcripts that arrive).
C27_AppendOnlyCapped ==
  [][/\ IsPrefix(appTranscript, appTranscript')
     /\ Len(appTranscript') < MaxTranscripts]_vars

\* The steps in which the effect on keywords ran.
KeywordsStep == appEvent'.op = "keywords" /\ appBatches' >= appBatches

\* C28: the keyword log never has more than 20 entries; a batch that is not
\* empty is appended in its order, and what is dropped is dropped from the
\* front, as much as brings the log back to 20.
C28_KeywordLogCapped ==
  [][/\ Len(appKeywords') <= 20
     /\ (KeywordsStep /\ appEvent'.batch # <<>>)
          => LET all == appKeywords \o KeywordEntries(appEvent'.batch)
                 drop == IF Len(all) > 20 THEN Len(all) - 20 ELSE 0
             IN /\ Len(appKeywords') = Len(all) - drop
                /\ \A i \in DOMAIN appKeywords' : appKeywords'[i] = all[i + drop]
                /\ \A i \in DOMAIN appEvent'.batch :
                     appKeywords'[Len(appKeywords') - Len(appEvent'.batch) + i].text
                       = appEvent'.batch[i]]_vars

\* A batch reached a full log and pushed the oldest entries out.
C28_Witness ==
  /\ appEvent.op = "keywords"
  /\ appEvent.dropped > 0
  /\ Len(appKeywords) = 20


\* ---------------------------------------------------------------------------
\* Part 4, continued: App with its three hooks at work (part_007).

\* handleTranscript(data): the log, and processText for a final transcript.
HandleTranscript(data) ==
  /\ appTranscript' = AppendTranscript(appTranscript, data)
  /\ IF ShowsTranscript(data) /\ data.is_final
     THEN Call(Characters(data.text), TRUE)
     ELSE UNCHANGED spVars

\* ws.onmessage of socket s with the data m, and handleTranscript when the
\* handler calls onTranscript.
AppMessage(s, m) ==
  /\ SocketMessage(s, m)
  /\ IF Deliveries(m) # <<>>
     THEN /\ HandleTranscript(Deliveries(m)[1])
          /\ appEvent' = [op |-> "transcript", data |-> Deliveries(m)[1]]
     ELSE UNCHANGED <<spVars, appTranscript, appEvent>>
  /\ UNCHANGED <<cpVars, auVars, appSentiment, appKeywords, appBatches,
                 appIsRecording, appMounted, appStarts>>
  /\ ErrorEffect(appError)

\* The effect on sentiment: if (sentiment) setCurrentSentiment(sentiment).
SentimentEffect(prev, value) == IF value.kind # "null" THEN value ELSE prev

\* A step of useSentimentProcessor, and the effects of App on what the hook
\* returns after it.  The effect on keywords runs when setKeywords was given
\* the array of a response.
AppSentimentEvent(A) ==
  /\ A
  /\ appSentiment' = SentimentEffect(appSentiment, sentiment')
  /\ IF lastEvent'.op = "response" /\ lastEvent'.data.hasData
          /\ lastEvent'.data.keywords.kind = "array"
     THEN /\ appKeywords' = KeywordsEffect(appKeywords, keywords')
          /\ appBatches' = appBatches + (IF Len(keywords') > 0 THEN 1 ELSE 0)
     ELSE UNCHANGED <<appKeywords, appBatches>>
  /\ UNCHANGED <<dgVars, cpVars, auVars, appTranscript,
                 appIsRecording, appMounted, appStarts, appEvent>>
  /\ ErrorEffect(appError)

\* One session of App: a click on Start, the transcripts, the work of the
\* sentiment processor, and a click on Stop.
InitAppSession == InitSession /\ cpSupported

NextApp ==
  \/ appStarts = 0 /\ HandleStart
  \/ GetUserMediaResolve
  \/ HandleStop
  \/ \E t \in DOMAIN cpTracks : TrackEnded(t)
  \/ ContextCloseFire
  \/ \E i \in DOMAIN dgTimers : SessionSocketEvent(ReconnectFire(i))
  \/ \E s \in DOMAIN dgSockets : SessionSocketEvent(SocketOpen(s, "ok"))
  \/ \E s \in DOMAIN dgSockets : SessionSocketEvent(SocketFail(s))
  \/ \E s \in DOMAIN dgSockets, code \in SessionCloseCodes :
       SessionSocketEvent(SocketClose(s, code))
  \/ \E s \in DOMAIN dgSockets, m \in Messages : AppMessage(s, m)
  \/ \E i \in DOMAIN timers : AppSentimentEvent(SpacingFire(i))
  \/ \E i \in DOMAIN timers : AppSentimentEvent(DebounceFire(i))
  \/ \E i \in DOMAIN tasks, data \in Responses : AppSentimentEvent(Succeed(i, data))
  \/ \E i \in DOMAIN tasks, err \in Errors : AppSentimentEvent(Fail(i, err))
  \/ \E i \in DOMAIN tasks : AppSentimentEvent(RetryFire(i))

SpecApp == InitAppSession /\ [][NextApp]_vars

\* ------------------------------------------------ claims on the session
\* The steps in which a timer of the sentiment processor fires or a request
\* of it settles, and those in which a reconnect timer fires.
LateStep ==
  \/ spVars' # spVars /\ dgVars' = dgVars
  \/ dgEvent'.op = "connect" /\ dgEvent'.by = "timer" /\ dgTimers' # dgTimers

\* C21: once handleStop has run and no handler of App has run since, a
\* debounce timer, a retry delay, a request or a reconnect timer that is
\* still pending changes neither the sentiment, the keywords, the transcript
\* and the error that App shows nor the state of the connection.
C21_NothingAfterStop ==
  [][(appEvent.op = "stop" /\ LateStep)
       => UNCHANGED <<appSentiment, appKeywords, appTranscript, appError,
                      sentiment, keywords, error,
                      dgIsConnected, dgError, dgSockets>>]_vars


\* ------------------------------------- more claims on the sentiment hook
\* The rejection of axios.post when its timeout of 10 seconds is over.
IsTimeout(err) == err.code = "ECONNABORTED" /\ err.name # "AbortError"

\* C31: an attempt that ends by the timeout is a failure like a network
\* error: after the first and the second attempt the request waits for its
\* retry, and after the third the error state holds a message.
C31_TimeoutIsRetried ==
  [][(lastEvent'.op = "error" /\ IsTimeout(lastEvent'.err))
       => IF lastEvent'.attempt < 2
          THEN /\ Len(tasks') = Len(tasks)
               /\ \E i \in DOMAIN tasks' : tasks'[i].phase = "retryWait"
          ELSE error' # NoError]_vars


\* C32: the last-processed text changes only in the step of a response that
\* carries a sentiment object (clearData, which empties it, set aside); a
\* failure, a cancellation or a response without a sentiment object leaves
\* it as it was, so that the same text passes the dedup filter again.
C32_DedupKeyOnlyOnSuccess ==
  [][(lastProcessedText' # lastProcessedText /\ lastEvent'.op # "clearData")
       => /\ lastEvent'.op = "response"
          /\ lastEvent'.data.hasData
          /\ lastEvent'.data.sentiment.kind = "obj"]_vars


\* A score n / 10^e lies in [0, 1].
InUnitRange(x) == 0 <= x.num /\ x.num <= Pow10(x.exp)

\* C34: the incoming scores all lie in [0, 1], and so does the score the
\* hook holds after any number of responses.
C34_ScoreInUnitRange ==
  /\ \A s \in IncomingSentiments : InUnitRange(s.score)
  /\ sentiment.kind = "obj" => InUnitRange(sentiment.score)

\* Two responses have been smoothed into one score: 0.3 * 0.2 + 0.7 * 0.9.
C34_Witness ==
  /\ lastEvent.op = "response"
  /\ lastEvent.data.hasData
  /\ lastEvent.data.sentiment.kind = "obj"
  /\ lastEvent.data.sentiment.score = Score(9, 1)
  /\ sentiment.kind = "obj"
  /\ sentiment.score = Score(69, 2)


\* A request moves on: axios.post settles (a response, a rejection, or the
\* timeout of 10 seconds at the latest) and the wait before a retry ends.
RequestSettles ==
  (\E i \in DOMAIN tasks :
     \/ \E data \in Responses : Succeed(i, data)
     \/ \E err \in Errors : Fail(i, err)
     \/ RetryFire(i)) /\ UNCHANGED spRest

\* The hook under a network that answers or times out and an event loop
\* that runs its timers.
SpecFair == Spec /\ WF_vars(RequestSettles)

\* The step in which a request ends, whatever its outcome.
OutcomeStep == Len(tasks') < Len(tasks)

DebounceCount(ts) == Cardinality({i \in DOMAIN ts : ts[i].kind = "debounce"})

\* C40: once the cleanup of the hook has run, no step starts a debounce
\* timer and no step sends a request.
C40_NothingAfterCleanup ==
  [][~mounted => /\ DebounceCount(timers') <= DebounceCount(timers)
                 /\ Len(tasks') <= Len(tasks)]_vars


\* ------------------------------------------ more claims on useDeepgram
\* The socket ws.current refers to is in the OPEN state.
CurrentOpen ==
  \E i \in DOMAIN dgSockets :
    dgSockets[i].current /\ dgSockets[i].state = "open" /\ dgWs = "live"

\* C33: a frame is sent exactly when ws.current is a socket in the OPEN
\* state; in every other state the handler changes nothing: no error, no
\* socket, no timer, nothing kept for later.
C33_FrameOnlyWhenOpen ==
  [][dgEvent'.op = "audio"
       => /\ dgEvent'.sent <=> CurrentOpen
          /\ UNCHANGED <<dgState, dgRefs, dgRun>>]_vars

\* A frame arrived while ws.current was still connecting, and was dropped.
C33_Witness ==
  /\ dgEvent.op = "audio"
  /\ ~dgEvent.sent
  /\ dgProcessor
  /\ dgWs = "live"
  /\ \E i \in DOMAIN dgSockets : dgSockets[i].current /\ dgSockets[i].state = "connecting"
  /\ dgError = NoError


HasCurrent(socks) == \E i \in DOMAIN socks : socks[i].current

\* The close event of a socket that ws.current no longer refers to, while a
\* newer socket is the current one.
StaleCloseStep ==
  /\ CloseStep
  /\ HasCurrent(dgSockets)
  /\ HasCurrent(dgSockets')

\* C37: the close event of a socket that was replaced leaves the newer
\* connection alone: the processor keeps forwarding, isConnected stays true
\* while the newer socket is open, and no reconnect is scheduled.
C37_StaleCloseIsIgnored ==
  [][StaleCloseStep
       => /\ dgProcessor' = dgProcessor
          /\ CurrentOpen => dgIsConnected'
          /\ dgTimers' = dgTimers]_vars


\* -------------------------------------------- more claims on the session
\* A pending getUserMedia of startCapture() resolves.
StartResolvesStep == cpEvent'.op = "captured" /\ cpPending' < cpPending

\* C36: when a start resolves after the session was stopped, no stream of the
\* microphone stays acquired and no socket is opened.
C36_StopCancelsPendingStart ==
  [][(StartResolvesStep /\ ~appIsRecording)
       => /\ ~cpStream'
          /\ \A t \in DOMAIN cpTracks' : ~cpTracks'[t].live
          /\ Len(dgSockets') <= Len(dgSockets)]_vars


\* A timeout of stopCapture() fires.
ContextCloseStep == cpEvent'.op = "contextClose" /\ cpTimers' < cpTimers

\* C38: a timeout of stopCapture() that fires while the session records
\* again and a new capture holds its stream leaves the audio context of that
\* capture in place.
C38_LateCloseSparesNewCapture ==
  [][(ContextCloseStep /\ appIsRecording /\ cpStream /\ cpAudioContext)
       => cpAudioContext']_vars


\* The record button of Controls takes a click that starts a session: it is
\* in the state 'idle'.
StartEnabled == ~appIsRecording /\ appError = NoError /\ cpPermission # "denied"

\* C39: whenever App is mounted in a browser with the capture API, is not
\* recording, and the permission is not denied, the Start control is enabled.
C39_StartAlwaysAvailable ==
  (appMounted /\ cpSupported /\ ~appIsRecording /\ cpPermission # "denied")
    => StartEnabled

\* The error of App, once shown while App is not recording, stays: no step
\* empties it and none starts a session.
C39_ErrorStays ==
  [][(appMounted /\ ~appIsRecording /\ appError # NoError)
       => (~appIsRecording' /\ appError' # NoError)]_vars

============================================================================
